---------------------------- MODULE Spec2Model ----------------------------
(***************************************************************************)
(* Model of the alert evaluation and delivery engine of infra-cost-monitor *)
(* (alert_system/alert_manager.py, class AlertManager) together with the   *)
(* callers that drive it (trigger_alerts.py, ai_ml/cost_ai_pipeline.py).   *)
(*                                                                         *)
(* Units.  The clock `now` counts minutes since 2024-01-01T00:00:00.       *)
(* Costs are whole currency units.  anomaly_score is kept in tenths        *)
(* (0.8 is 8), so the code's `anomaly_score > 0.8` reads `> 8`.            *)
(* Percentages are computed as in the code, (increase / previous) * 100;   *)
(* the input sets keep previous_cost a divisor of 100 * increase, so the   *)
(* integer quotient is the exact value.                                    *)
(***************************************************************************)
EXTENDS Integers, Sequences, FiniteSets, TLC

VARIABLES
  now,                \* wall clock, datetime.now(), in minutes
  thresholds_file,    \* what ../config/alert_thresholds.json holds
  thresholds,         \* self.thresholds: sequence of AlertThreshold
  config,             \* self.config: AlertConfig (channel fields)
  alert_history,      \* self.alert_history: sequence of alert dicts
  last_alert_time,    \* self.last_alert_time: dict str -> time
  alert_count_hourly, \* self.alert_count_hourly: dict str -> int
  history_file,       \* contents of ../data/alert_history.json
  delivered_at,       \* per history record, the clock when it was recorded
  pc,                 \* per producer: position in its check / send_alert call
  op,                 \* per producer: the check_* method it called last
  arg,                \* per producer: the record passed to that check
  cand,               \* per producer: the Optional[Dict] the check returned
  slack_result,       \* per producer: outcome of the webhook attempt
  email_result,       \* per producer: outcome of the SMTP attempt
  ret,                \* per producer: what its last send_alert returned
  reply,              \* per producer: what its last history query returned
  file_buffer,        \* per producer: what its open history file handle holds
  batch,              \* the data a batch scan was handed (anomalies, daily totals)
  evaluated           \* the check_* calls the batch scan has made, in order

vars == <<now, thresholds_file, thresholds, config, alert_history, last_alert_time,
          alert_count_hourly, history_file, delivered_at, pc, op, arg, cand,
          slack_result, email_result, ret, reply, file_buffer, batch,
          evaluated>>

\* The shared AlertManager state that suppression and history rest on.
tracker == <<last_alert_time, alert_count_hourly>>
manager == <<alert_history, last_alert_time, alert_count_hourly, history_file,
             delivered_at>>
setup   == <<thresholds_file, thresholds, config>>
\* The batch scan's data and how far it has come.
scan    == <<batch, evaluated>>

---------------------------------------------------------------------------
\* Bounds of the model.

\* The clock advances MaxTicks times, ClockStep minutes each time.
ClockStep == 30
MaxTicks == 2
\* No send_alert is entered once the history holds MaxHistory records
\* (EvalMaxHistory where the evaluator is exercised on the wide record sets).
MaxHistory == 2
EvalMaxHistory == 1
\* ... HistoryCap where the history is queried.
HistoryCap == 2

\* AlertConfig.alert_cooldown_minutes (default).
alert_cooldown_minutes == 30
\* AlertConfig.max_alerts_per_hour; the model runs with a small limit.
max_alerts_per_hour == 2

\* Producers that may drive one AlertManager (batch scan, live spike check).
Producers == {"batch", "live"}

Services == {"BigQuery", "anomaly_BigQuery"}

---------------------------------------------------------------------------
\* Python values.

\* Optional[Dict]: None is the empty sequence, a dict d is <<d>>.
None == <<>>
Some(d) == <<d>>

\* dict.get(k, default)
Get(d, k, default) == IF k \in DOMAIN d THEN d[k] ELSE default

\* d[k] = v on a dict
Put(d, k, v) == [j \in DOMAIN d \cup {k} |-> IF j = k THEN v ELSE d[j]]

EmptyDict == [k \in {} |-> 0]

\* bool(x) of a str configuration field, and of a list one
Truthy(x) == x # ""
TruthyList(x) == Len(x) > 0

---------------------------------------------------------------------------
\* Clock formatting.

Digit(n) ==
  CASE n = 0 -> "0" [] n = 1 -> "1" [] n = 2 -> "2" [] n = 3 -> "3"
    [] n = 4 -> "4" [] n = 5 -> "5" [] n = 6 -> "6" [] n = 7 -> "7"
    [] n = 8 -> "8" [] n = 9 -> "9"

TwoDigits(n) == Digit((n \div 10) % 10) \o Digit(n % 10)

\* date part of a clock value: "%Y-%m-%d" (the model stays within January)
DateStr(t) == "2024-01-" \o TwoDigits(1 + (t \div 60) \div 24)

HourStr(t) == TwoDigits((t \div 60) % 24)

\* now.strftime("%Y-%m-%d-%H"), the bucket key _should_send_alert reads
GateHourKey(t) == DateStr(t) \o "-" \o HourStr(t)

\* Variant: the bucket key truncated to the day.
RecordHourKeyDaily(t) == DateStr(t) \o "T00:00:00"

\* now.replace(minute=0, second=0, microsecond=0).isoformat(), the bucket key
\* send_alert increments
RecordHourKey(t) == DateStr(t) \o "T" \o HourStr(t) \o ":00:00"

\* datetime.now().isoformat(): the fields of the written timestamp
isoformat(t) ==
  [day |-> 1 + (t \div 60) \div 24, hour |-> (t \div 60) % 24, minute |-> t % 60]

\* datetime.fromisoformat(s): back to a clock value
fromisoformat(s) == ((s.day - 1) * 24 + s.hour) * 60 + s.minute

---------------------------------------------------------------------------
\* Thresholds.

Threshold(s, amt, pct, win, ty) ==
  [service |-> s, threshold_amount |-> amt, threshold_percentage |-> pct,
   time_window_hours |-> win, alert_type |-> ty]

\* _load_thresholds: the built-in defaults
default_thresholds ==
  << Threshold("all", 100, 50, 24, "cost_spike"),
     Threshold("all", 500, 100, 24, "budget_exceeded"),
     Threshold("all", 50, 25, 1, "anomaly") >>

\* A valid ../config/alert_thresholds.json: service-scoped thresholds ahead of
\* the wildcard ones.
file_thresholds ==
  << Threshold("BigQuery", 200, 300, 24, "cost_spike"),
     Threshold("all", 100, 50, 24, "cost_spike"),
     Threshold("BigQuery", 20, 25, 1, "anomaly"),
     Threshold("all", 50, 25, 1, "anomaly"),
     Threshold("BigQuery", 500, 100, 24, "budget_exceeded") >>

\* The keyword arguments AlertThreshold(**t) takes: the dataclass fields.
ThresholdFields ==
  {"service", "threshold_amount", "threshold_percentage", "time_window_hours",
   "alert_type"}

\* A state of ../config/alert_thresholds.json: whether os.path.exists finds
\* it, whether open succeeds, whether json.load parses it, the type of the
\* parsed top-level value, and the items a loop over that value yields (the
\* elements of an array, the keys of an object).
ThresholdsFile(exists, readable, parses, top, items) ==
  [exists |-> exists, readable |-> readable, parses |-> parses, top |-> top,
   items |-> items]

AbsentFile == ThresholdsFile(FALSE, FALSE, FALSE, "array", <<>>)
UnreadableFile == ThresholdsFile(TRUE, FALSE, FALSE, "array", <<>>)
InvalidJsonFile == ThresholdsFile(TRUE, TRUE, FALSE, "array", <<>>)
ValidFile == ThresholdsFile(TRUE, TRUE, TRUE, "array", file_thresholds)
EmptyArrayFile == ThresholdsFile(TRUE, TRUE, TRUE, "array", <<>>)
\* the second record lacks alert_type
MissingFieldFile ==
  ThresholdsFile(TRUE, TRUE, TRUE, "array",
    << Threshold("all", 100, 50, 24, "cost_spike"),
       [service |-> "all", threshold_amount |-> 50,
        threshold_percentage |-> 25, time_window_hours |-> 1] >>)
\* the second record has a field the dataclass does not know
UnknownFieldFile ==
  ThresholdsFile(TRUE, TRUE, TRUE, "array",
    << Threshold("all", 100, 50, 24, "cost_spike"),
       [service |-> "all", threshold_amount |-> 50,
        threshold_percentage |-> 25, time_window_hours |-> 1,
        alert_type |-> "anomaly", enabled |-> TRUE] >>)
\* {"thresholds": [...]}: an object, whose loop yields the key
ObjectFile ==
  ThresholdsFile(TRUE, TRUE, TRUE, "object", << [key |-> "thresholds"] >>)
\* {}: an object with no keys
EmptyObjectFile == ThresholdsFile(TRUE, TRUE, TRUE, "object", <<>>)

ThresholdsFiles ==
  {AbsentFile, UnreadableFile, InvalidJsonFile, ValidFile, EmptyArrayFile,
   MissingFieldFile, UnknownFieldFile, ObjectFile, EmptyObjectFile}

\* The files the manager is started with where loading is not the subject.
StartFiles == {AbsentFile, ValidFile}

\* AlertThreshold(**t) raises TypeError unless t is a mapping whose keys are
\* exactly the dataclass fields.
ThresholdRaises(t) == DOMAIN t # ThresholdFields

\* _load_thresholds: [AlertThreshold(**t) for t in data] when the file
\* exists and nothing inside the try raises, else the defaults.
_load_thresholds(file) ==
  IF ~file.exists THEN default_thresholds
  ELSE IF ~file.readable \/ ~file.parses THEN default_thresholds
  ELSE IF \E i \in 1..Len(file.items) : ThresholdRaises(file.items[i])
    THEN default_thresholds
  ELSE file.items

\* What _load_thresholds returns for the files the manager is started with.
LoadedThresholds == {_load_thresholds(file) : file \in StartFiles}

\* (threshold.service == service or threshold.service == "all") and
\* threshold.alert_type == ty
ScopeMatches(T, service, ty) ==
  (T.service = service \/ T.service = "all") /\ T.alert_type = ty

---------------------------------------------------------------------------
\* Channel configuration (AlertConfig).

Config(slack, server, user, pw, rcpt) ==
  [slack_webhook_url |-> slack, email_smtp_server |-> server,
   email_username |-> user, email_password |-> pw, email_recipients |-> rcpt]

\* Both channels configured, with SMTP credentials and a recipient.
BothChannels ==
  Config("https://hooks.slack.example/T0", "smtp.gmail.com", "ops", "pw",
         <<"oncall@example.com">>)

\* An SMTP server configured with the username, the password or the
\* recipient list empty, with and without a Slack webhook.
IncompleteEmailConfigs ==
  { Config(slack, "smtp.gmail.com", c[1], c[2], c[3]) :
      slack \in {"", "https://hooks.slack.example/T0"},
      c \in { <<"", "pw", <<"oncall@example.com">> >>,
              <<"ops", "", <<"oncall@example.com">> >>,
              <<"ops", "pw", <<>> >> } }

Configs ==
  { BothChannels,
    Config("https://hooks.slack.example/T0", "", "", "", <<>>),
    Config("", "smtp.gmail.com", "", "", <<>>),
    Config("", "", "", "", <<>>) }


---------------------------------------------------------------------------
\* Suppression gate: AlertManager._should_send_alert.

\* alert_key = f"{alert['type']}_{alert['service']}"
AlertKey(alert) == alert.type \o "_" \o alert.service

\* The cooldown test: a last-sent entry under the alert key, younger than the
\* cooldown.
CooldownBlocks(alert) ==
  LET alert_key == AlertKey(alert) IN
    /\ alert_key \in DOMAIN last_alert_time
    /\ (now - last_alert_time[alert_key]) * 60 < alert_cooldown_minutes * 60

\* Variant: the check counts itself in its bucket.
GateCountsCounting(counts) ==
  Put(counts, GateHourKey(now), Get(counts, GateHourKey(now), 0) + 1)

\* if hour_key not in self.alert_count_hourly: self.alert_count_hourly[hour_key] = 0
GateCounts(counts) ==
  IF GateHourKey(now) \in DOMAIN counts THEN counts
  ELSE Put(counts, GateHourKey(now), 0)

\* self.alert_count_hourly[hour_key] >= self.config.max_alerts_per_hour
RateBlocks(counts) == GateCounts(counts)[GateHourKey(now)] >= max_alerts_per_hour

\* What _should_send_alert returns when the hourly counters are `counts`.
ShouldSend(alert, counts) == ~CooldownBlocks(alert) /\ ~RateBlocks(counts)

\* What _should_send_alert leaves in self.alert_count_hourly: the cooldown
\* branch returns before the bucket is touched.
ShouldSendCounts(alert, counts) ==
  IF CooldownBlocks(alert) THEN counts ELSE GateCounts(counts)

---------------------------------------------------------------------------
\* Evaluator: AlertManager.check_cost_spike, check_anomaly and
\* check_budget_exceeded.

\* Variant: both limits required.
SpikeQualifiesBoth(T, cost_increase, cost_increase_percentage) ==
  /\ cost_increase >= T.threshold_amount
  /\ cost_increase_percentage >= T.threshold_percentage

\* cost_increase >= threshold.threshold_amount or
\* cost_increase_percentage >= threshold.threshold_percentage
SpikeQualifies(T, cost_increase, cost_increase_percentage) ==
  \/ cost_increase >= T.threshold_amount
  \/ cost_increase_percentage >= T.threshold_percentage

\* 'high' if cost_increase_percentage > 100 else 'medium'
SpikeSeverity(cost_increase_percentage) ==
  IF cost_increase_percentage > 100 THEN "high" ELSE "medium"

\* (cost_increase / previous_cost) * 100, for previous_cost # 0
Percentage(cost_increase, previous_cost) == (cost_increase * 100) \div previous_cost

\* the alert dict check_cost_spike builds for threshold T
SpikeAlert(cost_data, T) ==
  LET current_cost == Get(cost_data, "current_cost", 0)
      previous_cost == Get(cost_data, "previous_cost", 0)
      cost_increase == current_cost - previous_cost
      pct == Percentage(cost_increase, previous_cost)
  IN [type |-> "cost_spike",
      service |-> Get(cost_data, "service", "unknown"),
      current_cost |-> current_cost,
      previous_cost |-> previous_cost,
      increase_amount |-> cost_increase,
      increase_percentage |-> pct,
      threshold_amount |-> T.threshold_amount,
      threshold_percentage |-> T.threshold_percentage,
      timestamp |-> isoformat(now),
      severity |-> SpikeSeverity(pct)]

\* Variant: the early return missing.
NoPreviousCostUnchecked(previous_cost) == FALSE

\* `if previous_cost == 0: return None`
NoPreviousCost(previous_cost) == previous_cost = 0

\* Variant: the loop runs to the end of the list, a later qualifying
\* threshold replacing an earlier one.
RECURSIVE SpikeLoopLast(_, _, _)
SpikeLoopLast(i, cost_data, counts) ==
  IF i > Len(thresholds) THEN [alert |-> None, counts |-> counts]
  ELSE
    LET T == thresholds[i]
        previous_cost == Get(cost_data, "previous_cost", 0)
        cost_increase == Get(cost_data, "current_cost", 0) - previous_cost
        alert == SpikeAlert(cost_data, T)
        later == SpikeLoopLast(i + 1, cost_data, ShouldSendCounts(alert, counts))
    IN IF later.alert # None THEN later
       ELSE IF /\ ScopeMatches(T, Get(cost_data, "service", "unknown"), "cost_spike")
               /\ SpikeQualifies(T, cost_increase, Percentage(cost_increase, previous_cost))
               /\ ShouldSend(alert, counts)
       THEN [alert |-> Some(alert), counts |-> later.counts]
       ELSE later

\* The threshold loop of check_cost_spike from index i on; every qualifying
\* threshold calls _should_send_alert, which may add the gate's bucket.
RECURSIVE SpikeLoop(_, _, _)
SpikeLoop(i, cost_data, counts) ==
  IF i > Len(thresholds) THEN [alert |-> None, counts |-> counts]
  ELSE
    LET T == thresholds[i]
        previous_cost == Get(cost_data, "previous_cost", 0)
        cost_increase == Get(cost_data, "current_cost", 0) - previous_cost
        alert == SpikeAlert(cost_data, T)
    IN IF /\ ScopeMatches(T, Get(cost_data, "service", "unknown"), "cost_spike")
          /\ SpikeQualifies(T, cost_increase, Percentage(cost_increase, previous_cost))
       THEN IF ShouldSend(alert, counts)
            THEN [alert |-> Some(alert), counts |-> ShouldSendCounts(alert, counts)]
            ELSE SpikeLoop(i + 1, cost_data, ShouldSendCounts(alert, counts))
       ELSE SpikeLoop(i + 1, cost_data, counts)

\* check_cost_spike(cost_data): the returned Optional[Dict], the counters it
\* leaves behind, and whether it raised.  The division
\* `cost_increase / previous_cost` raises ZeroDivisionError on a zero
\* previous_cost that gets past the early return.
check_cost_spike(cost_data) ==
  IF NoPreviousCost(Get(cost_data, "previous_cost", 0))
  THEN [alert |-> None, counts |-> alert_count_hourly, raised |-> FALSE]
  ELSE IF Get(cost_data, "previous_cost", 0) = 0
  THEN [alert |-> None, counts |-> alert_count_hourly, raised |-> TRUE]
  ELSE LET r == SpikeLoop(1, cost_data, alert_count_hourly)
       IN [alert |-> r.alert, counts |-> r.counts, raised |-> FALSE]

\* Variant: the score gates the alert as well.
AnomalyQualifiesScored(T, anomaly_score, cost_impact) ==
  cost_impact >= T.threshold_amount /\ anomaly_score > 8

\* cost_impact >= threshold.threshold_amount
AnomalyQualifies(T, anomaly_score, cost_impact) == cost_impact >= T.threshold_amount

\* Variant: a score of exactly 0.8 counted as high.
AnomalySeverityInclusive(anomaly_score) ==
  IF anomaly_score >= 8 THEN "high" ELSE "medium"

\* 'high' if anomaly_score > 0.8 else 'medium' (scores in tenths)
AnomalySeverity(anomaly_score) == IF anomaly_score > 8 THEN "high" ELSE "medium"

\* the alert dict check_anomaly builds
AnomalyAlert(anomaly_data) ==
  [type |-> "anomaly",
   service |-> Get(anomaly_data, "service", "unknown"),
   anomaly_score |-> Get(anomaly_data, "anomaly_score", 0),
   cost_impact |-> Get(anomaly_data, "cost_impact", 0),
   timestamp |-> isoformat(now),
   severity |-> AnomalySeverity(Get(anomaly_data, "anomaly_score", 0))]

\* The threshold loop of check_anomaly from index i on.
RECURSIVE AnomalyLoop(_, _, _)
AnomalyLoop(i, anomaly_data, counts) ==
  IF i > Len(thresholds) THEN [alert |-> None, counts |-> counts]
  ELSE
    LET T == thresholds[i]
        alert == AnomalyAlert(anomaly_data)
    IN IF /\ ScopeMatches(T, Get(anomaly_data, "service", "unknown"), "anomaly")
          /\ AnomalyQualifies(T, Get(anomaly_data, "anomaly_score", 0),
                              Get(anomaly_data, "cost_impact", 0))
       THEN IF ShouldSend(alert, counts)
            THEN [alert |-> Some(alert), counts |-> ShouldSendCounts(alert, counts)]
            ELSE AnomalyLoop(i + 1, anomaly_data, ShouldSendCounts(alert, counts))
       ELSE AnomalyLoop(i + 1, anomaly_data, counts)

\* check_anomaly(anomaly_data): as for check_cost_spike; nothing in it raises
check_anomaly(anomaly_data) ==
  LET r == AnomalyLoop(1, anomaly_data, alert_count_hourly)
  IN [alert |-> r.alert, counts |-> r.counts, raised |-> FALSE]

\* float('inf'): a limit above every cost
Infinity == 1000000

\* budget_limit = cost_data.get('budget_limit', float('inf'))
BudgetLimit(cost_data) == Get(cost_data, "budget_limit", Infinity)

\* Variant: a cost equal to the limit counted as exceeding it.
BudgetExceededInclusive(cost_data) ==
  Get(cost_data, "current_cost", 0) >= BudgetLimit(cost_data)

\* Variant: an absent budget_limit read as 0.
BudgetExceededDefaultZero(cost_data) ==
  Get(cost_data, "current_cost", 0) > Get(cost_data, "budget_limit", 0)

\* `if current_cost > budget_limit:`
BudgetExceeded(cost_data) ==
  Get(cost_data, "current_cost", 0) > BudgetLimit(cost_data)

\* the alert dict check_budget_exceeded builds
BudgetAlert(cost_data) ==
  [type |-> "budget_exceeded",
   service |-> Get(cost_data, "service", "unknown"),
   current_cost |-> Get(cost_data, "current_cost", 0),
   budget_limit |-> BudgetLimit(cost_data),
   exceeded_amount |-> Get(cost_data, "current_cost", 0) - BudgetLimit(cost_data),
   timestamp |-> isoformat(now),
   severity |-> "critical"]

\* The threshold loop of check_budget_exceeded from index i on.
RECURSIVE BudgetLoop(_, _, _)
BudgetLoop(i, cost_data, counts) ==
  IF i > Len(thresholds) THEN [alert |-> None, counts |-> counts]
  ELSE
    LET T == thresholds[i]
        alert == BudgetAlert(cost_data)
    IN IF ScopeMatches(T, Get(cost_data, "service", "unknown"), "budget_exceeded")
       THEN IF ShouldSend(alert, counts)
            THEN [alert |-> Some(alert), counts |-> ShouldSendCounts(alert, counts)]
            ELSE BudgetLoop(i + 1, cost_data, ShouldSendCounts(alert, counts))
       ELSE BudgetLoop(i + 1, cost_data, counts)

\* check_budget_exceeded(cost_data): as for check_cost_spike; nothing in it
\* raises
check_budget_exceeded(cost_data) ==
  IF BudgetExceeded(cost_data)
  THEN LET r == BudgetLoop(1, cost_data, alert_count_hourly)
       IN [alert |-> r.alert, counts |-> r.counts, raised |-> FALSE]
  ELSE [alert |-> None, counts |-> alert_count_hourly, raised |-> FALSE]

---------------------------------------------------------------------------
\* Channel dispatch: the body of AlertManager.send_alert after the gate.

\* What can happen to the webhook POST and to the SMTP session.
SlackOutcomes == {"ok", "http_error", "network_error"}
EmailOutcomes == {"ok", "smtp_error"}

\* _send_slack_alert: "none" when no webhook is configured (send_alert does
\* not call it), else the outcome of requests.post.
SlackAttempt(cfg, outcome) ==
  IF Truthy(cfg.slack_webhook_url) THEN outcome ELSE "none"

\* Does _send_slack_alert raise?  requests.post sits in try/except Exception
\* and a non-200 status is only logged.
SlackRaises(result) == FALSE

\* _send_email_alert: "none" when no SMTP server is configured, "skipped" when
\* it returns at `if not all([...])`, else the outcome of the SMTP session.
EmailAttempt(cfg, outcome) ==
  IF ~Truthy(cfg.email_smtp_server) THEN "none"
  ELSE IF /\ Truthy(cfg.email_username)
          /\ Truthy(cfg.email_password)
          /\ TruthyList(cfg.email_recipients)
       THEN outcome
       ELSE "skipped"

\* Variant: incomplete SMTP settings raise as well.
EmailRaisesUnlessSent(result) == result \in {"smtp_error", "skipped"}

\* Does _send_email_alert raise?  The SMTP session is not guarded.
EmailRaises(result) == result = "smtp_error"

\* Variant: the channel calls without their try/except.
ChannelErrorUncaught(raised) == raised

\* Does an exception raised by a channel leave send_alert?  Both calls sit in
\* `try: ... except Exception`.
ChannelErrorEscapes(raised) == FALSE

\* Variant: success only when some channel was attempted.
SucceededIfAttempted(slack, email) ==
  /\ ~SlackRaises(slack) /\ ~EmailRaises(email)
  /\ (slack # "none" \/ email # "none")

\* `success = True`, set to False by each `except Exception` branch
Succeeded(slack, email) == ~SlackRaises(slack) /\ ~EmailRaises(email)

\* The two channel attempts of send_alert: per-channel results, the local
\* `success`, and whether an exception left the method.
Dispatch(cfg, slack_outcome, email_outcome) ==
  LET slack == SlackAttempt(cfg, slack_outcome)
      slack_escaped == ChannelErrorEscapes(SlackRaises(slack))
      email == IF slack_escaped THEN "none" ELSE EmailAttempt(cfg, email_outcome)
      email_escaped == ~slack_escaped /\ ChannelErrorEscapes(EmailRaises(email))
  IN [slack |-> slack,
      email |-> email,
      success |-> Succeeded(slack, email),
      escaped |-> slack_escaped \/ email_escaped]

\* self.last_alert_time[service] = datetime.now()
RecordKey(alert) == Get(alert, "service", "unknown")

\* Variant: the history append and tracking update outside `if success:`.
RecordsAlways(success) == TRUE

\* `if success:` the history append and the tracking update happen
Records(success) == success

---------------------------------------------------------------------------
\* History queries: AlertManager.get_alert_history and get_alert_stats.

\* Variant: the window taken in minutes.
CutoffTimeMinutes(hours) == now - hours

\* cutoff_time = datetime.now() - timedelta(hours=hours)
CutoffTime(hours) == now - hours * 60

\* datetime.fromisoformat(alert['timestamp']) > cutoff_time
AfterCutoff(alert, cutoff_time) == fromisoformat(alert.timestamp) > cutoff_time

\* get_alert_history(hours): the history records after the cutoff, in order
get_alert_history(hours) ==
  SelectSeq(alert_history, LAMBDA alert : AfterCutoff(alert, CutoffTime(hours)))

\* Variant: the count set, not added to.
CountTypeOnce(alert_types, alert_type) == Put(alert_types, alert_type, 1)

\* alert_types[alert_type] = alert_types.get(alert_type, 0) + 1
CountType(alert_types, alert_type) ==
  Put(alert_types, alert_type, Get(alert_types, alert_type, 0) + 1)

\* the `for alert in self.alert_history` loop of get_alert_stats from index
\* i on
RECURSIVE CountTypes(_, _)
CountTypes(i, alert_types) ==
  IF i > Len(alert_history) THEN alert_types
  ELSE CountTypes(i + 1, CountType(alert_types, alert_history[i].type))

\* get_alert_stats()
get_alert_stats ==
  [total_alerts |-> Len(alert_history),
   alerts_24h |-> Len(get_alert_history(24)),
   alerts_7d |-> Len(get_alert_history(24 * 7)),
   alert_types |-> CountTypes(1, EmptyDict)]

---------------------------------------------------------------------------
\* Inputs.

\* Records of a batch scan and of the day-over-day spike check: an anomaly
\* per service, one below the default threshold, one spike.
AnomalyInputs ==
  { [service |-> "BigQuery", anomaly_score |-> 9, cost_impact |-> 75],
    [service |-> "anomaly_BigQuery", anomaly_score |-> 5, cost_impact |-> 75],
    [service |-> "BigQuery", anomaly_score |-> 9, cost_impact |-> 20] }

CostInputs ==
  { [service |-> "BigQuery", current_cost |-> 250, previous_cost |-> 100] }

\* Anomalies of two services of which one is named like the other's alert
\* key.
AliasingAnomalyInputs ==
  { [service |-> "BigQuery", anomaly_score |-> 9, cost_impact |-> 75],
    [service |-> "anomaly_BigQuery", anomaly_score |-> 5, cost_impact |-> 75] }

\* What concurrent producers hand in: the same anomaly, the same spike, and a
\* first-day cost record without a previous cost.
ConcurrentAnomalyInputs ==
  { [service |-> "BigQuery", anomaly_score |-> 9, cost_impact |-> 75] }

ConcurrentCostInputs ==
  { [service |-> "BigQuery", current_cost |-> 250, previous_cost |-> 100],
    [service |-> "BigQuery", current_cost |-> 100, previous_cost |-> 0] }

\* (anomaly_score in tenths, cost_impact) of the anomaly records
AnomalyReadings == {<<9, 75>>, <<5, 75>>, <<9, 20>>}

\* The wide set of anomaly records; the last one lacks its numbers.
AnomalyRecords ==
  { [service |-> s, anomaly_score |-> r[1], cost_impact |-> r[2]] :
      s \in Services, r \in AnomalyReadings }
  \cup { [service |-> "BigQuery"] }

\* (current_cost, previous_cost): amount and percentage reached, percentage
\* only, amount only, neither, no previous cost
CostReadings ==
  {<<250, 100>>, <<160, 100>>, <<350, 250>>, <<120, 100>>, <<100, 0>>}

\* The wide set of cost records; the last one lacks previous_cost.
CostRecords ==
  { [service |-> s, current_cost |-> r[1], previous_cost |-> r[2]] :
      s \in Services, r \in CostReadings }
  \cup { [service |-> "BigQuery", current_cost |-> 150] }

\* Records that sit on the limits of the checks and of the severity rules:
\* (anomaly_score in tenths, cost_impact) above, at and below 0.8, and at and
\* below the default amount
BoundaryAnomalyReadings == {<<9, 75>>, <<8, 75>>, <<5, 50>>, <<9, 20>>}

\* anomaly records, with each field absent in turn
BoundaryAnomalyRecords ==
  { [service |-> "BigQuery", anomaly_score |-> r[1], cost_impact |-> r[2]] :
      r \in BoundaryAnomalyReadings }
  \cup { [service |-> "BigQuery", cost_impact |-> 75],
         [service |-> "BigQuery", anomaly_score |-> 9],
         [anomaly_score |-> 9, cost_impact |-> 75] }

\* (current_cost, previous_cost): increase of 150 %, of exactly 100 %, of
\* 60 %, and of 300 %, which every cost_spike threshold of the model admits
BoundaryCostReadings == {<<250, 100>>, <<200, 100>>, <<160, 100>>, <<400, 100>>}

\* cost records, with each field absent in turn
BoundaryCostRecords ==
  { [service |-> "BigQuery", current_cost |-> r[1], previous_cost |-> r[2]] :
      r \in BoundaryCostReadings }
  \cup { [service |-> "BigQuery", current_cost |-> 150],
         [service |-> "BigQuery", previous_cost |-> 100],
         [current_cost |-> 250, previous_cost |-> 100] }

\* (current_cost, budget_limit): above, at and below the limit
BudgetReadings == {<<600, 500>>, <<500, 500>>, <<400, 500>>}

\* budget records of both services, with each field absent in turn
BudgetRecords ==
  { [service |-> s, current_cost |-> r[1], budget_limit |-> r[2]] :
      s \in Services, r \in BudgetReadings }
  \cup { [service |-> "BigQuery", current_cost |-> 600],
         [service |-> "BigQuery", budget_limit |-> 500],
         [current_cost |-> 600, budget_limit |-> 500] }

\* A budget record over its limit, for the callers that run every operation.
OperationBudgetInputs ==
  { [service |-> "BigQuery", current_cost |-> 600, budget_limit |-> 500] }

\* The windows history is asked for: half a day, the default, a week.
HistoryWindows == {12, 24, 24 * 7}

\* The times at which a caller that pauses between its runs is started, in
\* minutes: at once, after half a day, a day, a week and eight days.
RunTimes == {0, 12 * 60, 24 * 60, 7 * 24 * 60, 8 * 24 * 60}

\* The data of a batch scan: data['anomalies'] and data['daily_total_data'].
Batch(anomalies, daily_total_data) ==
  [anomalies |-> anomalies, daily_total_data |-> daily_total_data]

\* No batch scan under way.
NoBatch == Batch(<<>>, <<>>)

\* A scan over an anomaly in the percentage_diff format, one in the
\* anomaly_score format and one with neither and too small an impact, with
\* two daily totals; and a scan of two anomalies with one daily total only.
ScanBatches ==
  { Batch(<< [service_desc |-> "anomaly_BigQuery", percentage_diff |-> 50,
              cost_impact |-> 75],
             [service |-> "BigQuery", anomaly_score |-> 9, cost_impact |-> 75],
             [service |-> "Cloud SQL", cost_impact |-> 20] >>,
          << [cost |-> 100], [cost |-> 250] >>),
    Batch(<< [service |-> "Cloud SQL", cost_impact |-> 20],
             [service |-> "BigQuery", anomaly_score |-> 9, cost_impact |-> 75] >>,
          << [cost |-> 100] >>) }

\* The anomaly_data _check_and_trigger_alerts builds from an anomaly of
\* either format (scores in tenths: percentage_diff / 100 is
\* percentage_diff \div 10, the default 1.0 is 10); description, severity and
\* timestamp, which check_anomaly does not read, are left out.
PipelineAnomalyData(anomaly) ==
  [service |->
     IF Truthy(Get(anomaly, "service_desc", "")) THEN anomaly.service_desc
     ELSE Get(anomaly, "service", "unknown"),
   anomaly_score |->
     IF "percentage_diff" \in DOMAIN anomaly THEN anomaly.percentage_diff \div 10
     ELSE IF "anomaly_score" \in DOMAIN anomaly THEN anomaly.anomaly_score
     ELSE 10,
   cost_impact |-> Get(anomaly, "cost_impact", 0)]

\* recent_daily = data['daily_total_data'][-2:] as the cost_data of the
\* day-over-day check
PipelineCostData(daily_total_data) ==
  [current_cost |-> daily_total_data[Len(daily_total_data)].cost,
   previous_cost |-> daily_total_data[Len(daily_total_data) - 1].cost,
   service |-> "daily_total"]

\* a call of a check as the scan makes it
Call(method, record) == [method |-> method, record |-> record]

---------------------------------------------------------------------------
\* State machine.

\* AlertManager.__init__ with the configuration and thresholds loaded; every
\* producer idle.
Init ==
  /\ now = 0
  /\ thresholds_file \in StartFiles
  /\ thresholds = _load_thresholds(thresholds_file)
  /\ config \in Configs
  /\ alert_history = <<>>
  /\ last_alert_time = EmptyDict
  /\ alert_count_hourly = EmptyDict
  /\ history_file = <<>>
  /\ delivered_at = <<>>
  /\ pc = [p \in Producers |-> "idle"]
  /\ op = [p \in Producers |-> "none"]
  /\ arg = [p \in Producers |-> None]
  /\ cand = [p \in Producers |-> None]
  /\ slack_result = [p \in Producers |-> "none"]
  /\ email_result = [p \in Producers |-> "none"]
  /\ ret = [p \in Producers |-> "none"]
  /\ reply = [p \in Producers |-> None]
  /\ file_buffer = [p \in Producers |-> None]
  /\ batch = NoBatch
  /\ evaluated = <<>>

\* Producers past the gate of send_alert, their record still to come.
Sending == {q \in Producers : pc[q] = "sending"}

\* Variant: the loop takes each threshold it looks at off the list.
ConsumedThresholds(ths) == IF ths = <<>> THEN ths ELSE Tail(ths)

\* `for threshold in self.thresholds:` leaves self.thresholds as it is; the
\* loop bodies read the threshold's fields and assign none.
IteratedThresholds(ths) == ths

\* The state a check leaves: the producer holds the returned Optional[Dict];
\* an exception out of the check ends the caller ("raised").
Checked(p, method, record, result) ==
  /\ pc' = [pc EXCEPT ![p] = IF result.raised THEN "raised" ELSE "checked"]
  /\ op' = [op EXCEPT ![p] = method]
  /\ arg' = [arg EXCEPT ![p] = Some(record)]
  /\ cand' = [cand EXCEPT ![p] = result.alert]
  /\ alert_count_hourly' = result.counts
  /\ thresholds' = IteratedThresholds(thresholds)
  /\ UNCHANGED <<now, thresholds_file, config, alert_history, last_alert_time,
                 history_file, delivered_at, slack_result, email_result, ret,
                 reply, file_buffer>>

\* alert = alert_manager.check_cost_spike(cost_data)
CheckCostSpike(p, cost_data) ==
  /\ pc[p] = "idle"
  /\ Checked(p, "check_cost_spike", cost_data, check_cost_spike(cost_data))
  /\ UNCHANGED scan

\* alert = alert_manager.check_anomaly(anomaly_data)
CheckAnomaly(p, anomaly_data) ==
  /\ pc[p] = "idle"
  /\ Checked(p, "check_anomaly", anomaly_data, check_anomaly(anomaly_data))
  /\ UNCHANGED scan

\* alert = alert_manager.check_budget_exceeded(cost_data)
CheckBudgetExceeded(p, cost_data) ==
  /\ pc[p] = "idle"
  /\ Checked(p, "check_budget_exceeded", cost_data, check_budget_exceeded(cost_data))
  /\ UNCHANGED scan

\* The producer is back at the top of its loop.
Idle(p) ==
  /\ pc' = [pc EXCEPT ![p] = "idle"]
  /\ op' = [op EXCEPT ![p] = "none"]
  /\ arg' = [arg EXCEPT ![p] = None]
  /\ cand' = [cand EXCEPT ![p] = None]
  /\ slack_result' = [slack_result EXCEPT ![p] = "none"]
  /\ email_result' = [email_result EXCEPT ![p] = "none"]
  /\ ret' = [ret EXCEPT ![p] = "none"]
  /\ reply' = [reply EXCEPT ![p] = None]
  /\ file_buffer' = [file_buffer EXCEPT ![p] = None]

\* `if alert:` is false: the caller reports "no alert triggered" and goes on
NoAlert(p) ==
  /\ pc[p] = "checked"
  /\ cand[p] = None
  /\ Idle(p)
  /\ UNCHANGED <<now, setup, scan, manager>>

\* Variant: send_alert without the entry check.
GateSkipped(alert, counts) == FALSE

\* `if not self._should_send_alert(alert):` at the entry of send_alert
GateRejects(alert, counts) == ~ShouldSend(alert, counts)

\* send_alert(alert), entry: `if not self._should_send_alert(alert): return False`
\* (no send_alert is entered once the history, with the sends under way, holds
\* `cap` records)
SendGate(p, cap) ==
  /\ pc[p] = "checked"
  /\ cand[p] # None
  /\ Len(alert_history) + Cardinality(Sending) < cap
  /\ LET alert == cand[p][1] IN
       /\ alert_count_hourly' = ShouldSendCounts(alert, alert_count_hourly)
       /\ IF GateRejects(alert, alert_count_hourly)
          THEN /\ pc' = [pc EXCEPT ![p] = "done"]
               /\ ret' = [ret EXCEPT ![p] = "false"]
          ELSE /\ pc' = [pc EXCEPT ![p] = "sending"]
               /\ ret' = ret
  /\ UNCHANGED <<now, setup, scan, alert_history, last_alert_time, history_file,
                 delivered_at, op, arg, cand, slack_result, email_result, reply,
                 file_buffer>>

\* How _save_alert_history ends when the file is whole afterwards: the dump
\* completed, or open(..., 'w') failed
OpenOutcomes == {"written", "open_failed"}

\* How _save_alert_history ends: as above, or the dump stopped after the file
\* had been truncated
SaveOutcomes == OpenOutcomes \cup {"dump_failed"}

\* The files json.dump of the whole in-memory history can leave: the whole
\* list; the file as it was when it could not be opened; the records that
\* reached the file before the dump stopped
SaveHistory(history, written) ==
  CASE written = "written" -> {history}
    [] written = "open_failed" -> {history_file}
    [] written = "dump_failed" ->
         {SubSeq(history, 1, n) : n \in 0..(Len(history) - 1)}

\* Variant: a failed save leaves _save_alert_history as an exception.
SaveRaisesOnFailure(written) == written # "written"

\* `except Exception as e: logger.error(...)`: no failure of the save leaves
\* _save_alert_history
SaveRaises(written) == FALSE

\* Variant: the new record put at the head of the list.
Inserted(history, alert) == <<alert>> \o history

\* self.alert_history.append(alert)
Appended(history, alert) == Append(history, alert)

\* Variant: the channel code marks the dict it was given.
AfterChannelsMarked(alert) ==
  [k \in DOMAIN alert \cup {"notified"} |->
     IF k = "notified" THEN "yes" ELSE alert[k]]

\* The caller's alert dict once _send_slack_alert and _send_email_alert have
\* run: the formatters subscript it to build their messages and assign
\* nothing.
AfterChannels(alert) == alert

\* send_alert(alert), after time.sleep(1): both channel attempts, then on
\* success the history append, the save and the tracking update; returns
\* `success`.
Deliver(p, slack_outcome, email_outcome, written) ==
  /\ pc[p] = "sending"
  /\ LET alert == AfterChannels(cand[p][1])
         d == Dispatch(config, slack_outcome, email_outcome)
         saved == ~d.escaped /\ Records(d.success)
         escaped == d.escaped \/ (saved /\ SaveRaises(written))
     IN /\ cand' = [cand EXCEPT ![p] = Some(alert)]
        /\ slack_result' = [slack_result EXCEPT ![p] = d.slack]
        /\ email_result' = [email_result EXCEPT ![p] = d.email]
        /\ ret' = [ret EXCEPT ![p] =
                     IF escaped THEN "raised"
                     ELSE IF d.success THEN "true" ELSE "false"]
        /\ IF saved
           THEN /\ alert_history' = Appended(alert_history, alert)
                /\ history_file' \in SaveHistory(alert_history', written)
                /\ delivered_at' = Append(delivered_at, now)
                /\ IF SaveRaises(written)
                   THEN UNCHANGED <<last_alert_time, alert_count_hourly>>
                   ELSE /\ last_alert_time' =
                             Put(last_alert_time, RecordKey(alert), now)
                        /\ alert_count_hourly' =
                             Put(alert_count_hourly, RecordHourKey(now),
                                 Get(alert_count_hourly, RecordHourKey(now), 0) + 1)
           ELSE UNCHANGED manager
        /\ pc' = [pc EXCEPT ![p] = IF escaped THEN "raised" ELSE "done"]
  /\ UNCHANGED <<now, setup, scan, op, arg, reply, file_buffer>>

\* The steps of the same body where other calls run in between.
\* First the channel attempts and, on success, self.alert_history.append(alert).
Attempt(p, slack_outcome, email_outcome) ==
  /\ pc[p] = "sending"
  /\ LET alert == AfterChannels(cand[p][1])
         d == Dispatch(config, slack_outcome, email_outcome)
         recorded == ~d.escaped /\ Records(d.success)
     IN /\ cand' = [cand EXCEPT ![p] = Some(alert)]
        /\ slack_result' = [slack_result EXCEPT ![p] = d.slack]
        /\ email_result' = [email_result EXCEPT ![p] = d.email]
        /\ ret' = [ret EXCEPT ![p] =
                     IF d.escaped THEN "raised"
                     ELSE IF d.success THEN ret[p] ELSE "false"]
        /\ alert_history' = IF recorded THEN Appended(alert_history, alert)
                            ELSE alert_history
        /\ delivered_at' = IF recorded THEN Append(delivered_at, now)
                           ELSE delivered_at
        /\ pc' = [pc EXCEPT ![p] = IF d.escaped THEN "raised"
                                   ELSE IF recorded THEN "saving" ELSE "done"]
  /\ UNCHANGED <<now, setup, scan, last_alert_time, alert_count_hourly, history_file,
                 op, arg, reply, file_buffer>>

\* _save_alert_history, `with open(..., 'w') as f: json.dump(self.alert_history, f)`:
\* the open empties the file and the dump fills the handle's buffer.
OpenHistoryFile(p) ==
  /\ pc[p] = "saving"
  /\ history_file' = <<>>
  /\ file_buffer' = [file_buffer EXCEPT ![p] = Some(alert_history)]
  /\ pc' = [pc EXCEPT ![p] = "closing"]
  /\ UNCHANGED <<now, setup, scan, alert_history, last_alert_time, alert_count_hourly,
                 delivered_at, op, arg, cand, slack_result, email_result, ret,
                 reply>>

\* What the file holds once a handle has written `buffer` from its start: a
\* longer content already there keeps its tail, which leaves text that is no
\* JSON array.
TornTail == [type |-> "torn"]
Flushed(buffer, file) ==
  IF Len(file) > Len(buffer) THEN Append(buffer, TornTail) ELSE buffer

\* The end of the `with` block writes the buffer out; then the tracking
\* update, and send_alert returns True.
CloseHistoryFile(p) ==
  /\ pc[p] = "closing"
  /\ history_file' = Flushed(file_buffer[p][1], history_file)
  /\ file_buffer' = [file_buffer EXCEPT ![p] = None]
  /\ last_alert_time' = Put(last_alert_time, RecordKey(cand[p][1]), now)
  /\ alert_count_hourly' =
       Put(alert_count_hourly, RecordHourKey(now),
           Get(alert_count_hourly, RecordHourKey(now), 0) + 1)
  /\ ret' = [ret EXCEPT ![p] = "true"]
  /\ pc' = [pc EXCEPT ![p] = "done"]
  /\ UNCHANGED <<now, setup, scan, alert_history, delivered_at, op, arg, cand,
                 slack_result, email_result, reply>>

\* The caller has logged the outcome of send_alert and goes on.
Return(p) ==
  /\ pc[p] = "done"
  /\ Idle(p)
  /\ UNCHANGED <<now, setup, scan, manager>>

\* `for anomaly in data['anomalies']:` reaches its next anomaly:
\* alert = self.alert_manager.check_anomaly(anomaly_data)
ScanAnomaly(p) ==
  /\ pc[p] = "idle"
  /\ Len(evaluated) < Len(batch.anomalies)
  /\ LET anomaly_data == PipelineAnomalyData(batch.anomalies[Len(evaluated) + 1])
     IN /\ Checked(p, "check_anomaly", anomaly_data, check_anomaly(anomaly_data))
        /\ evaluated' = Append(evaluated, Call("check_anomaly", anomaly_data))
  /\ batch' = batch

\* After the loop, `if 'daily_total_data' in data and len(...) >= 2:`
\* alert = self.alert_manager.check_cost_spike(cost_data)
ScanCostSpike(p) ==
  /\ pc[p] = "idle"
  /\ Len(evaluated) = Len(batch.anomalies)
  /\ Len(batch.daily_total_data) >= 2
  /\ LET cost_data == PipelineCostData(batch.daily_total_data)
     IN /\ Checked(p, "check_cost_spike", cost_data, check_cost_spike(cost_data))
        /\ evaluated' = Append(evaluated, Call("check_cost_spike", cost_data))
  /\ batch' = batch

\* Variant: the loop body leaves the scan when a send has failed.
LoopBreaksOnFailure(success) == success = "false"

\* Does the loop body leave the scan after send_alert?  `if success: ...
\* else: logger.error(...)`: both branches only log.
LoopBreaks(success) == FALSE

\* The scan has logged the outcome of send_alert and goes on to its next
\* record.
ScanReturn(p) ==
  /\ pc[p] = "done"
  /\ IF LoopBreaks(ret[p])
     THEN /\ pc' = [pc EXCEPT ![p] = "left"]
          /\ UNCHANGED <<op, arg, cand, slack_result, email_result, ret, reply,
                         file_buffer>>
     ELSE Idle(p)
  /\ UNCHANGED <<now, setup, scan, manager>>

\* Time passes.
Tick ==
  /\ now + ClockStep <= MaxTicks * ClockStep
  /\ now' = now + ClockStep
  /\ UNCHANGED <<setup, scan, manager, pc, op, arg, cand, slack_result, email_result,
                 ret, reply, file_buffer>>

\* The state a history query leaves: the producer holds the reply.
Queried(p, method, request, result) ==
  /\ pc[p] = "idle"
  /\ pc' = [pc EXCEPT ![p] = "queried"]
  /\ op' = [op EXCEPT ![p] = method]
  /\ arg' = [arg EXCEPT ![p] = Some(request)]
  /\ reply' = [reply EXCEPT ![p] = Some(result)]
  /\ UNCHANGED <<now, setup, scan, manager, cand, slack_result, email_result, ret,
                 file_buffer>>

\* alert_manager.get_alert_history(hours)
GetAlertHistory(p, hours) ==
  Queried(p, "get_alert_history", [hours |-> hours], get_alert_history(hours))

\* alert_manager.get_alert_stats()
GetAlertStats(p) ==
  Queried(p, "get_alert_stats", [hours |-> 0], get_alert_stats)

\* The caller has used the reply and goes on.
QueryDone(p) ==
  /\ pc[p] = "queried"
  /\ Idle(p)
  /\ UNCHANGED <<now, setup, scan, manager>>

\* A pause up to a later run of the callers; none of them is inside a call.
Pause(t) ==
  /\ \A p \in Producers : pc[p] = "idle"
  /\ t > now
  /\ now' = t
  /\ UNCHANGED <<setup, scan, manager, pc, op, arg, cand, slack_result, email_result,
                 ret, reply, file_buffer>>

\* AlertManager(config) constructed anew after the process has ended, the
\* thresholds file being in the given state: empty in-memory history and
\* tracking, thresholds loaded again; the history file is neither read nor
\* touched.
Construct(file) ==
  /\ \A p \in Producers : pc[p] = "idle"
  /\ alert_history' = <<>>
  /\ last_alert_time' = EmptyDict
  /\ alert_count_hourly' = EmptyDict
  /\ delivered_at' = <<>>
  /\ thresholds_file' = file
  /\ thresholds' = _load_thresholds(file)
  /\ UNCHANGED <<now, config, history_file, pc, op, arg, cand, slack_result,
                 email_result, ret, reply, file_buffer, scan>>

Restart == \E file \in StartFiles : Construct(file)

\* One operation of producer p on records drawn from the given sets.
Step(p, cost_records, anomaly_records, cap) ==
  \/ \E cost_data \in cost_records : CheckCostSpike(p, cost_data)
  \/ \E anomaly_data \in anomaly_records : CheckAnomaly(p, anomaly_data)
  \/ NoAlert(p)
  \/ SendGate(p, cap)
  \/ \E so \in SlackOutcomes, eo \in EmailOutcomes, w \in OpenOutcomes : Deliver(p, so, eo, w)
  \/ Return(p)

\* One caller driving the manager, as trigger_alerts.py and the pipeline do.
Next ==
  \/ Step("batch", CostInputs, AnomalyInputs, MaxHistory)
  \/ Tick

Spec == Init /\ [][Next]_vars

\* One caller, the evaluator exercised on the wide record sets.
NextEval ==
  \/ Step("batch", CostRecords, AnomalyRecords, EvalMaxHistory)
  \/ Tick

\* A manager with both channels configured.
InitEval == Init /\ config = BothChannels

SpecEval == InitEval /\ [][NextEval]_vars

\* One caller running the three checks on the boundary records.
NextChecks ==
  \/ \E cost_data \in BudgetRecords : CheckBudgetExceeded("batch", cost_data)
  \/ Step("batch", BoundaryCostRecords, BoundaryAnomalyRecords, EvalMaxHistory)
  \/ Tick

SpecChecks == InitEval /\ [][NextChecks]_vars

\* One caller that delivers alerts and asks for the history and the
\* statistics, with pauses between its runs.
NextHistory ==
  \/ Step("batch", CostInputs, AnomalyInputs, HistoryCap)
  \/ \E hours \in HistoryWindows : GetAlertHistory("batch", hours)
  \/ GetAlertStats("batch")
  \/ QueryDone("batch")
  \/ \E t \in RunTimes : Pause(t)

SpecHistory == InitEval /\ [][NextHistory]_vars

\* The same caller across process restarts.
NextRestart ==
  \/ Step("batch", ConcurrentCostInputs, ConcurrentAnomalyInputs, HistoryCap)
  \/ GetAlertHistory("batch", 24)
  \/ GetAlertStats("batch")
  \/ QueryDone("batch")
  \/ \E t \in RunTimes : Pause(t)
  \/ Restart

SpecRestart == InitEval /\ [][NextRestart]_vars

\* A manager constructed over every state of the thresholds file, and run.
InitLoad ==
  /\ now = 0
  /\ thresholds_file \in ThresholdsFiles
  /\ thresholds = _load_thresholds(thresholds_file)
  /\ config = BothChannels
  /\ alert_history = <<>>
  /\ last_alert_time = EmptyDict
  /\ alert_count_hourly = EmptyDict
  /\ history_file = <<>>
  /\ delivered_at = <<>>
  /\ pc = [p \in Producers |-> "idle"]
  /\ op = [p \in Producers |-> "none"]
  /\ arg = [p \in Producers |-> None]
  /\ cand = [p \in Producers |-> None]
  /\ slack_result = [p \in Producers |-> "none"]
  /\ email_result = [p \in Producers |-> "none"]
  /\ ret = [p \in Producers |-> "none"]
  /\ reply = [p \in Producers |-> None]
  /\ file_buffer = [p \in Producers |-> <<>>]
  /\ batch = NoBatch
  /\ evaluated = <<>>

NextLoad ==
  \/ Step("batch", ConcurrentCostInputs, ConcurrentAnomalyInputs, EvalMaxHistory)
  \/ \E file \in ThresholdsFiles : Construct(file)

SpecLoad == InitLoad /\ [][NextLoad]_vars

\* A batch scan, as _check_and_trigger_alerts and trigger_alerts run it: the
\* anomalies in order, each checked and, with a candidate, sent; then the
\* day-over-day check.
InitScan ==
  /\ now = 0
  /\ thresholds_file \in StartFiles
  /\ thresholds = _load_thresholds(thresholds_file)
  /\ config = BothChannels
  /\ alert_history = <<>>
  /\ last_alert_time = EmptyDict
  /\ alert_count_hourly = EmptyDict
  /\ history_file = <<>>
  /\ delivered_at = <<>>
  /\ pc = [p \in Producers |-> "idle"]
  /\ op = [p \in Producers |-> "none"]
  /\ arg = [p \in Producers |-> None]
  /\ cand = [p \in Producers |-> None]
  /\ slack_result = [p \in Producers |-> "none"]
  /\ email_result = [p \in Producers |-> "none"]
  /\ ret = [p \in Producers |-> "none"]
  /\ reply = [p \in Producers |-> None]
  /\ file_buffer = [p \in Producers |-> None]
  /\ batch \in ScanBatches
  /\ evaluated = <<>>

NextScan ==
  \/ ScanAnomaly("batch")
  \/ ScanCostSpike("batch")
  \/ NoAlert("batch")
  \/ SendGate("batch", Len(batch.anomalies) + 2)
  \/ \E so \in SlackOutcomes, eo \in EmailOutcomes, w \in OpenOutcomes :
       Deliver("batch", so, eo, w)
  \/ ScanReturn("batch")
  \/ Tick

\* The scan is a sequential program: it takes its next step whenever it has
\* one.
SpecScan == InitScan /\ [][NextScan]_vars /\ WF_vars(NextScan)

\* One caller on a manager whose SMTP settings are complete or lack one
\* item.
InitEmail ==
  /\ now = 0
  /\ thresholds_file \in StartFiles
  /\ thresholds = _load_thresholds(thresholds_file)
  /\ config \in IncompleteEmailConfigs \cup {BothChannels}
  /\ alert_history = <<>>
  /\ last_alert_time = EmptyDict
  /\ alert_count_hourly = EmptyDict
  /\ history_file = <<>>
  /\ delivered_at = <<>>
  /\ pc = [p \in Producers |-> "idle"]
  /\ op = [p \in Producers |-> "none"]
  /\ arg = [p \in Producers |-> None]
  /\ cand = [p \in Producers |-> None]
  /\ slack_result = [p \in Producers |-> "none"]
  /\ email_result = [p \in Producers |-> "none"]
  /\ ret = [p \in Producers |-> "none"]
  /\ reply = [p \in Producers |-> None]
  /\ file_buffer = [p \in Producers |-> None]
  /\ batch = NoBatch
  /\ evaluated = <<>>

NextEmail ==
  \/ Step("batch", ConcurrentCostInputs, ConcurrentAnomalyInputs, MaxHistory)
  \/ Tick

SpecEmail == InitEmail /\ [][NextEmail]_vars

\* One caller whose saves end in every way, a dump cut short included.
NextSave ==
  \/ \E cost_data \in ConcurrentCostInputs : CheckCostSpike("batch", cost_data)
  \/ \E anomaly_data \in ConcurrentAnomalyInputs : CheckAnomaly("batch", anomaly_data)
  \/ NoAlert("batch")
  \/ SendGate("batch", MaxHistory)
  \/ \E so \in SlackOutcomes, eo \in EmailOutcomes, w \in SaveOutcomes :
       Deliver("batch", so, eo, w)
  \/ Return("batch")
  \/ Tick

SpecSave == InitEval /\ [][NextSave]_vars

\* One caller that uses every operation of the manager.
NextOperations ==
  \/ Step("batch", ConcurrentCostInputs, ConcurrentAnomalyInputs, HistoryCap)
  \/ \E cost_data \in OperationBudgetInputs : CheckBudgetExceeded("batch", cost_data)
  \/ GetAlertHistory("batch", 24)
  \/ GetAlertStats("batch")
  \/ QueryDone("batch")
  \/ Tick

SpecOperations == InitEval /\ [][NextOperations]_vars

\* One caller that goes on sending past the hourly limit.
LedgerCap == max_alerts_per_hour + 1

NextLedger ==
  \/ Step("batch", ConcurrentCostInputs, ConcurrentAnomalyInputs, LedgerCap)
  \/ Tick

SpecLedger == InitEval /\ [][NextLedger]_vars

\* Several producers delivering through one manager, the history file
\* writable.
NextWriters ==
  \E p \in Producers :
    \/ \E cost_data \in ConcurrentCostInputs : CheckCostSpike(p, cost_data)
    \/ \E anomaly_data \in ConcurrentAnomalyInputs : CheckAnomaly(p, anomaly_data)
    \/ NoAlert(p)
    \/ SendGate(p, MaxHistory)
    \/ \E so \in SlackOutcomes, eo \in EmailOutcomes : Attempt(p, so, eo)
    \/ OpenHistoryFile(p)
    \/ CloseHistoryFile(p)
    \/ Return(p)

SpecWriters == InitEval /\ [][NextWriters]_vars

\* Two producers whose deliveries fall between each other's check and
\* send_alert.
NextRecheck ==
  \E p \in Producers :
    \/ \E anomaly_data \in AliasingAnomalyInputs : CheckAnomaly(p, anomaly_data)
    \/ NoAlert(p)
    \/ SendGate(p, MaxHistory)
    \/ \E so \in SlackOutcomes, eo \in EmailOutcomes, w \in OpenOutcomes : Deliver(p, so, eo, w)
    \/ Return(p)

SpecRecheck == InitEval /\ [][NextRecheck]_vars

\* Several producers sharing the manager.
NextConcurrent ==
  \/ \E p \in Producers :
       Step(p, ConcurrentCostInputs, ConcurrentAnomalyInputs, MaxHistory)
  \/ Tick

SpecConcurrent == Init /\ [][NextConcurrent]_vars

---------------------------------------------------------------------------
\* Vocabulary of the properties.

AlertTypes == {"cost_spike", "budget_exceeded", "anomaly"}

\* a candidate with the given alert key (type, service)
Candidate(ty, s) == [type |-> ty, service |-> s]

\* delivered alerts whose delivery fell into the clock hour of t
DeliveredInHourOf(t) ==
  {i \in 1..Len(delivered_at) : delivered_at[i] \div 60 = t \div 60}

\* the value of an hourly counter, 0 for a bucket that is not there
CountOf(counts, k) == Get(counts, k, 0)

SameCounts(c1, c2) ==
  \A k \in DOMAIN c1 \cup DOMAIN c2 : CountOf(c1, k) = CountOf(c2, k)

---------------------------------------------------------------------------
\* C1 (cooldown gate).  For every delivered alert, as long as fewer than
\* alert_cooldown_minutes * 60 seconds have passed since its delivery, the
\* should_send check of a candidate with the same type and service returns
\* false.
C1_CooldownGate ==
  \A i \in 1..Len(alert_history) :
    (now - delivered_at[i]) * 60 < alert_cooldown_minutes * 60
      => ~ShouldSend(Candidate(alert_history[i].type, alert_history[i].service),
                     alert_count_hourly)

\* C2 (rate-limit gate).  Once max_alerts_per_hour alerts have been delivered
\* in the current clock hour, the should_send check returns false for every
\* alert key.
C2_RateLimitGate ==
  Cardinality(DeliveredInHourOf(now)) >= max_alerts_per_hour
    => \A ty \in AlertTypes, s \in Services :
         ~ShouldSend(Candidate(ty, s), alert_count_hourly)

\* C3 (check-then-record is a critical section per alert key).  No two
\* producers are past the gate of send_alert, their records still to come,
\* with candidates of the same type and service.
C3_GateIsCriticalSection ==
  \A p, q \in Producers :
    (p # q /\ pc[p] = "sending" /\ pc[q] = "sending")
      => ~(/\ cand[p][1].type = cand[q][1].type
           /\ cand[p][1].service = cand[q][1].service)

\* C4 (record step).  A send_alert that delivers at time now leaves
\* last-sent[alert key] = now under the key the should_send check reads, and
\* has added one to the counter of the bucket the should_send check reads.
C4_RecordStep ==
  [][\A p \in Producers :
       (pc[p] = "sending" /\ ret'[p] = "true")
         => LET alert == cand[p][1] IN
              /\ AlertKey(alert) \in DOMAIN last_alert_time'
              /\ last_alert_time'[AlertKey(alert)] = now
              /\ CountOf(alert_count_hourly', GateHourKey(now))
                   = CountOf(alert_count_hourly, GateHourKey(now)) + 1]_vars

\* C5 (a failed send consumes no budget).  A send_alert call that ends not
\* delivered after a channel failure leaves the last-sent map, the value of
\* every hourly counter, the history and the history file as they were, at
\* its gate and at its return, and the should_send check of the same
\* candidate still accepts when it returns.
C5_FailedSendKeepsState ==
  [][\A p \in Producers :
       /\ (pc[p] = "checked" /\ pc'[p] = "sending")
            => /\ UNCHANGED <<last_alert_time, alert_history, history_file>>
               /\ SameCounts(alert_count_hourly, alert_count_hourly')
       /\ (pc[p] = "sending" /\ ret'[p] = "false")
            => /\ UNCHANGED <<last_alert_time, alert_history, history_file>>
               /\ SameCounts(alert_count_hourly, alert_count_hourly')
               /\ ShouldSend(cand[p][1], alert_count_hourly)']_vars

\* C5 witness: a send_alert has returned false because the SMTP session failed.
C5_Witness ==
  \E p \in Producers :
    pc[p] = "done" /\ ret[p] = "false" /\ email_result[p] = "smtp_error"

\* C6 (delivered only if every configured channel succeeded).  A send_alert
\* that returned true had no failed webhook attempt and no failed SMTP
\* attempt.
C6_DeliveredOnlyIfAllSucceeded ==
  \A p \in Producers :
    ret[p] = "true"
      => /\ slack_result[p] \notin {"http_error", "network_error"}
         /\ email_result[p] # "smtp_error"

Calls(p, method) == pc[p] = "idle" /\ pc'[p] # "idle" /\ op'[p] = method

\* C8 (check_cost_spike, previous_cost > 0).  With the gate not suppressing
\* the key, check_cost_spike returns a candidate exactly when some threshold
\* of type cost_spike scoped to the service or to "all" has
\* current - P >= threshold_amount or (current - P) / P * 100 >=
\* threshold_percentage.
C8_CostSpikeIff ==
  [][\A p \in Producers :
       Calls(p, "check_cost_spike") =>
         LET cost_data == arg'[p][1]
             S == Get(cost_data, "service", "unknown")
             P == Get(cost_data, "previous_cost", 0)
             increase == Get(cost_data, "current_cost", 0) - P
         IN (P > 0 /\ ShouldSend(Candidate("cost_spike", S), alert_count_hourly))
              => /\ pc'[p] = "checked"
                 /\ cand'[p] # None <=>
                      \E i \in 1..Len(thresholds) :
                        /\ thresholds[i].alert_type = "cost_spike"
                        /\ thresholds[i].service \in {S, "all"}
                        /\ \/ increase >= thresholds[i].threshold_amount
                           \/ increase * 100 >= thresholds[i].threshold_percentage * P]_vars

\* C8 witness: check_cost_spike has returned a candidate whose increase is
\* below threshold_amount, on the percentage alone.
C8_Witness ==
  \E p \in Producers :
    /\ pc[p] = "checked" /\ op[p] = "check_cost_spike" /\ cand[p] # None
    /\ cand[p][1].increase_amount < cand[p][1].threshold_amount

\* C9 (check_cost_spike, previous_cost zero or absent).  The call returns
\* None without raising and leaves the manager's state as it was.
C9_NoPreviousCostNoCandidate ==
  [][\A p \in Producers :
       (Calls(p, "check_cost_spike") /\ Get(arg'[p][1], "previous_cost", 0) = 0)
         => /\ pc'[p] = "checked"
            /\ cand'[p] = None
            /\ UNCHANGED manager]_vars

\* C9 witness: check_cost_spike has returned None for a record with
\* previous_cost 0 whose increase reaches the amount limit.
C9_Witness ==
  \E p \in Producers :
    /\ pc[p] = "checked" /\ op[p] = "check_cost_spike" /\ cand[p] = None
    /\ Get(arg[p][1], "previous_cost", 0) = 0
    /\ Get(arg[p][1], "current_cost", 0) >= 100

C11_BudgetExceededIff ==
  [][\A p \in Producers :
       (Calls(p, "check_budget_exceeded") /\ "budget_limit" \in DOMAIN arg'[p][1]) =>
         LET cost_data == arg'[p][1]
             S == Get(cost_data, "service", "unknown")
             current == Get(cost_data, "current_cost", 0)
             limit == cost_data.budget_limit
         IN /\ pc'[p] = "checked"
            /\ ShouldSend(Candidate("budget_exceeded", S), alert_count_hourly) =>
                 (cand'[p] # None <=>
                    /\ current > limit
                    /\ \E i \in 1..Len(thresholds) :
                         /\ thresholds[i].alert_type = "budget_exceeded"
                         /\ thresholds[i].service \in {S, "all"})
            /\ cand'[p] # None =>
                 /\ cand'[p][1].type = "budget_exceeded"
                 /\ cand'[p][1].service = S
                 /\ cand'[p][1].severity = "critical"
                 /\ cand'[p][1].exceeded_amount = current - limit
            /\ current <= limit => cand'[p] = None]_vars

\* C11 witness (scenario C): current_cost 600 against budget_limit 500 gives a
\* candidate of type budget_exceeded, severity critical, exceeded_amount 100.
C11_Witness ==
  \E p \in Producers :
    /\ pc[p] = "checked" /\ op[p] = "check_budget_exceeded" /\ cand[p] # None
    /\ arg[p][1].current_cost = 600 /\ arg[p][1].budget_limit = 500
    /\ cand[p][1].type = "budget_exceeded"
    /\ cand[p][1].severity = "critical"
    /\ cand[p][1].exceeded_amount = 100

\* the severity the rules give an alert, from its type and numbers
RuleSeverity(alert) ==
  IF alert.type = "anomaly"
  THEN IF alert.anomaly_score > 8 THEN "high" ELSE "medium"
  ELSE IF alert.type = "cost_spike"
  THEN IF alert.increase_percentage > 100 THEN "high" ELSE "medium"
  ELSE "critical"

\* the alerts the checks have produced: the ones the callers hold and the
\* ones in the history
Produced ==
  {cand[p][1] : p \in {q \in Producers : cand[q] # None}}
    \cup {alert_history[i] : i \in 1..Len(alert_history)}

\* C12 (severity).  Every produced candidate has type cost_spike,
\* budget_exceeded or anomaly and the severity its type's rule gives: anomaly
\* high iff anomaly_score > 0.8, cost_spike high iff increase_percentage >
\* 100, else medium; budget_exceeded critical.
C12_SeverityRule ==
  \A alert \in Produced :
    /\ alert.type \in AlertTypes
    /\ alert.severity \in {"critical", "high", "medium"}
    /\ alert.severity = RuleSeverity(alert)

\* C12 witness: an anomaly candidate with a score of exactly 0.8 is medium,
\* while the history holds a cost_spike alert of exactly 100 %, medium too.
C12_Witness ==
  \E p \in Producers :
    /\ pc[p] = "checked" /\ cand[p] # None
    /\ cand[p][1].type = "anomaly"
    /\ cand[p][1].anomaly_score = 8
    /\ cand[p][1].severity = "medium"
    /\ Len(alert_history) = 1
    /\ alert_history[1].type = "cost_spike"
    /\ alert_history[1].increase_percentage = 100
    /\ alert_history[1].severity = "medium"

\* C13 (the should_send check is free of effects).  Every step that calls
\* _should_send_alert (a check that reaches the gate, or the entry of
\* send_alert), whether it accepts or rejects, leaves the last-sent map and
\* the hourly-counter map, bucket keys included, as they were.
C13_ShouldSendKeepsState ==
  [][\A p \in Producers :
       (\/ pc[p] = "idle" /\ pc'[p] = "checked"
        \/ pc[p] = "checked" /\ pc'[p] \in {"sending", "done"})
         => /\ last_alert_time' = last_alert_time
            /\ alert_count_hourly' = alert_count_hourly]_vars

\* the clock value an alert's timestamp stands for
StampOf(alert) == fromisoformat(alert.timestamp)

\* C14 (history round trip).  A send_alert that delivers appends to the
\* history exactly the candidate it was passed, and get_alert_history(24)
\* returns, with every field as it was, each history record whose timestamp
\* is less than 24 hours old.
C14_HistoryRoundTrip ==
  [][\A p \in Producers :
       /\ (pc[p] = "sending" /\ ret'[p] = "true")
            => alert_history' = Append(alert_history, cand[p][1])
       /\ (Calls(p, "get_alert_history") /\ arg'[p][1].hours = 24)
            => \A i \in 1..Len(alert_history) :
                 now - StampOf(alert_history[i]) < 24 * 60
                   => \E j \in 1..Len(reply'[p][1]) :
                        reply'[p][1][j] = alert_history[i]]_vars

\* C14 witness: get_alert_history(24) has returned an alert delivered half a
\* day before.
C14_Witness ==
  \E p \in Producers :
    /\ pc[p] = "queried" /\ op[p] = "get_alert_history" /\ arg[p][1].hours = 24
    /\ \E j \in 1..Len(reply[p][1]) :
         /\ reply[p][1][j] = alert_history[Len(alert_history)]
         /\ StampOf(reply[p][1][j]) = now - 12 * 60
         /\ delivered_at[Len(alert_history)] = now - 12 * 60

\* C15 (history window).  get_alert_history(hours) returns exactly the
\* history records whose timestamp is >= now - hours, the cutoff included, in
\* history order.
C15_WindowIncludesCutoff ==
  [][\A p \in Producers :
       Calls(p, "get_alert_history")
         => reply'[p][1] =
              SelectSeq(alert_history,
                        LAMBDA alert : StampOf(alert) >= now - arg'[p][1].hours * 60)]_vars

\* the number of history records of the given type
OfType(ty) == Cardinality({i \in 1..Len(alert_history) : alert_history[i].type = ty})

\* C16 (statistics).  get_alert_stats returns total_alerts = the number of
\* history records, alerts_24h and alerts_7d = the sizes of the 24-hour and
\* 168-hour windows of get_alert_history, and alert_types mapping exactly the
\* types that occur in the history to their numbers of records; the counts
\* add up to total_alerts, and alerts_24h <= alerts_7d <= total_alerts.
C16_Stats ==
  [][\A p \in Producers :
       Calls(p, "get_alert_stats") =>
         LET stats == reply'[p][1] IN
           /\ stats.total_alerts = Len(alert_history)
           /\ stats.alerts_24h = Len(get_alert_history(24))
           /\ stats.alerts_7d = Len(get_alert_history(168))
           /\ DOMAIN stats.alert_types = {ty \in AlertTypes : OfType(ty) > 0}
           /\ \A ty \in DOMAIN stats.alert_types : stats.alert_types[ty] = OfType(ty)
           /\ CountOf(stats.alert_types, "cost_spike")
                + CountOf(stats.alert_types, "budget_exceeded")
                + CountOf(stats.alert_types, "anomaly") = stats.total_alerts
           /\ stats.alerts_24h <= stats.alerts_7d
           /\ stats.alerts_7d <= stats.total_alerts]_vars

\* C16 witness: statistics over two anomaly alerts, one a day old and one
\* eight days old: none in the last 24 hours, one in the last 7 days.
C16_Witness ==
  \E p \in Producers :
    /\ pc[p] = "queried" /\ op[p] = "get_alert_stats"
    /\ reply[p][1].total_alerts = 2
    /\ reply[p][1].alerts_24h = 0
    /\ reply[p][1].alerts_7d = 1
    /\ reply[p][1].alert_types = Put(EmptyDict, "anomaly", 2)

\* C17 (history durable across restarts).  No step, a restart and a delivery
\* after it included, removes a record from the history file, and every
\* record of the history file is part of the history that get_alert_history
\* and get_alert_stats work on.
C17_HistoryDurable ==
  [][/\ \A i \in 1..Len(history_file) :
          \E j \in 1..Len(history_file') : history_file'[j] = history_file[i]
     /\ \A i \in 1..Len(history_file') :
          \E j \in 1..Len(alert_history') : alert_history'[j] = history_file'[i]]_vars

\* producers inside send_alert, past its gate
InSendAlert == {q \in Producers : pc[q] \in {"sending", "saving", "closing"}}

\* how often a sequence of alerts holds the given one
Occurrences(alerts, alert) ==
  Cardinality({i \in 1..Len(alerts) : alerts[i] = alert})

\* C18 (no record lost under concurrent writers).  Once no send_alert call is
\* under way, the in-memory history and the history file each hold the alert
\* of every producer whose send_alert returned true, and each holds one
\* record per delivery: the file has the records of the in-memory history,
\* as often as it has them.
C18_NoRecordLost ==
  InSendAlert = {}
    => /\ \A p \in Producers :
            (pc[p] = "done" /\ ret[p] = "true")
              => /\ Occurrences(alert_history, cand[p][1]) >= 1
                 /\ Occurrences(history_file, cand[p][1]) >= 1
       /\ Len(alert_history) = Len(delivered_at)
       /\ Len(history_file) = Len(alert_history)
       /\ \A i \in 1..Len(history_file) :
            Occurrences(history_file, history_file[i])
              = Occurrences(alert_history, history_file[i])

\* no webhook URL and no SMTP server configured
NoChannel(cfg) == ~Truthy(cfg.slack_webhook_url) /\ ~Truthy(cfg.email_smtp_server)

\* d2 is d1 with the value under one key replaced by v, or added
OneEntrySet(d1, d2, v) ==
  \E k \in DOMAIN d2 :
    /\ d2[k] = v
    /\ DOMAIN d2 = DOMAIN d1 \cup {k}
    /\ \A j \in DOMAIN d1 \ {k} : d2[j] = d1[j]

\* C19 (zero channels configured).  With no webhook URL and no SMTP server,
\* a send_alert that has passed its gate attempts no channel, returns true,
\* appends the alert to the history, sets one last-sent entry to now and
\* raises one hourly counter by one.
C19_NoChannelDelivers ==
  [][\A p \in Producers :
       (pc[p] = "sending" /\ pc'[p] # "sending" /\ NoChannel(config))
         => /\ pc'[p] = "done"
            /\ ret'[p] = "true"
            /\ slack_result'[p] = "none"
            /\ email_result'[p] = "none"
            /\ alert_history' = Append(alert_history, cand[p][1])
            /\ OneEntrySet(last_alert_time, last_alert_time', now)
            /\ \E k \in DOMAIN alert_count_hourly' :
                 OneEntrySet(alert_count_hourly, alert_count_hourly',
                             CountOf(alert_count_hourly, k) + 1)]_vars

\* C19 witness: without any channel, send_alert has returned true and the
\* alert is in the history.
C19_Witness ==
  \E p \in Producers :
    /\ NoChannel(config)
    /\ pc[p] = "done" /\ ret[p] = "true"
    /\ slack_result[p] = "none" /\ email_result[p] = "none"
    /\ Len(alert_history) >= 1
    /\ alert_history[Len(alert_history)] = cand[p][1]

\* the checks of the evaluator
CheckMethods == {"check_cost_spike", "check_budget_exceeded", "check_anomaly"}

\* the numeric input fields each check reads
NumericFields(method) ==
  CASE method = "check_cost_spike" -> {"current_cost", "previous_cost"}
    [] method = "check_budget_exceeded" -> {"current_cost", "budget_limit"}
    [] method = "check_anomaly" -> {"anomaly_score", "cost_impact"}

\* what the given check returns for a record, in the current state
CheckOf(method, record) ==
  CASE method = "check_cost_spike" -> check_cost_spike(record)
    [] method = "check_budget_exceeded" -> check_budget_exceeded(record)
    [] method = "check_anomaly" -> check_anomaly(record)

\* C20 as stated (absent numeric fields count as 0).  No check call raises,
\* and for every numeric field absent from its record it returns what it
\* returns for the same record with that field set to 0.
C20_AbsentFieldsAsZero ==
  [][\A p \in Producers :
       \A method \in CheckMethods :
         Calls(p, method)
           => /\ pc'[p] = "checked"
              /\ \A f \in NumericFields(method) \ DOMAIN arg'[p][1] :
                   cand'[p] = CheckOf(method, Put(arg'[p][1], f, 0)).alert]_vars

\* C20 as amended.  No check call raises; for every absent numeric field
\* other than budget_limit the check returns what it returns for the same
\* record with that field set to 0; for a record without budget_limit
\* check_budget_exceeded returns no candidate, whatever the cost.
C20_AbsentFieldsDefault ==
  [][\A p \in Producers :
       \A method \in CheckMethods :
         Calls(p, method)
           => /\ pc'[p] = "checked"
              /\ \A f \in (NumericFields(method) \ {"budget_limit"}) \ DOMAIN arg'[p][1] :
                   cand'[p] = CheckOf(method, Put(arg'[p][1], f, 0)).alert
              /\ (method = "check_budget_exceeded"
                    /\ "budget_limit" \notin DOMAIN arg'[p][1])
                   => cand'[p] = None]_vars

\* C20 witness: check_anomaly has returned a candidate, of severity medium,
\* for a record without anomaly_score.
C20_Witness ==
  \E p \in Producers :
    /\ pc[p] = "checked" /\ op[p] = "check_anomaly"
    /\ "anomaly_score" \notin DOMAIN arg[p][1]
    /\ cand[p] # None
    /\ cand[p][1].anomaly_score = 0
    /\ cand[p][1].severity = "medium"

---------------------------------------------------------------------------
\* a thresholds file that can be read and holds a JSON array of records with
\* exactly the threshold fields
WellFormed(file) ==
  /\ file.exists /\ file.readable /\ file.parses
  /\ file.top = "array"
  /\ \A i \in 1..Len(file.items) : DOMAIN file.items[i] = ThresholdFields

\* C21 (threshold loading is non-fatal).  The manager's thresholds are the
\* records of the thresholds file, in file order, when the file is a readable
\* JSON array of threshold records, and the built-in defaults when the file
\* is absent, unreadable or malformed in any way.
C21_ThresholdLoading ==
  thresholds = IF WellFormed(thresholds_file) THEN thresholds_file.items
               ELSE default_thresholds

---------------------------------------------------------------------------
\* C22 (rate-limit safety over the ledger).  No clock hour holds more than
\* max_alerts_per_hour deliveries.
C22_HourlyLedgerBound ==
  \A i \in 1..Len(delivered_at) :
    Cardinality(DeliveredInHourOf(delivered_at[i])) <= max_alerts_per_hour

---------------------------------------------------------------------------
\* the record meets an anomaly threshold of the manager
MeetsAnomalyThreshold(anomaly_data) ==
  \E i \in 1..Len(thresholds) :
    /\ ScopeMatches(thresholds[i], Get(anomaly_data, "service", "unknown"), "anomaly")
    /\ AnomalyQualifies(thresholds[i], Get(anomaly_data, "anomaly_score", 0),
                        Get(anomaly_data, "cost_impact", 0))

\* The manager is in the middle of a batch of anomaly records of pairwise
\* distinct services, fewer than max_alerts_per_hour of them delivered and
\* none of them for service s.
InDistinctBatch(s) ==
  /\ Len(alert_history) < max_alerts_per_hour
  /\ \A i \in 1..Len(alert_history) :
       /\ alert_history[i].type = "anomaly"
       /\ alert_history[i].service # s
       /\ \A j \in 1..Len(alert_history) :
            i # j => alert_history[i].service # alert_history[j].service

\* C23 (a batch over distinct services is delivered whole).  Within a batch
\* of at most max_alerts_per_hour anomaly records of pairwise distinct
\* services, a record that meets the anomaly threshold gets a candidate from
\* check_anomaly, the candidate passes the gate of send_alert, and with every
\* channel attempt succeeding send_alert delivers it.
C23_DistinctBatchDelivered ==
  [][\A p \in Producers :
       /\ (/\ Calls(p, "check_anomaly")
           /\ MeetsAnomalyThreshold(arg'[p][1])
           /\ InDistinctBatch(Get(arg'[p][1], "service", "unknown")))
            => cand'[p] # None
       /\ (/\ pc[p] = "checked" /\ op[p] = "check_anomaly" /\ cand[p] # None
           /\ InDistinctBatch(cand[p][1].service)
           /\ pc'[p] # "checked")
            => pc'[p] = "sending"
       /\ (/\ pc[p] = "sending" /\ op[p] = "check_anomaly"
           /\ pc'[p] # "sending"
           /\ slack_result'[p] \in {"ok", "none"}
           /\ email_result'[p] \in {"ok", "none", "skipped"})
            => /\ ret'[p] = "true"
               /\ alert_history' = Append(alert_history, cand[p][1])]_vars

---------------------------------------------------------------------------
\* the indices of the cost_spike thresholds in scope of the record whose
\* amount-or-percentage condition the record meets
QualifyingSpikeThresholds(cost_data) ==
  LET S == Get(cost_data, "service", "unknown")
      P == Get(cost_data, "previous_cost", 0)
      increase == Get(cost_data, "current_cost", 0) - P
  IN {i \in 1..Len(thresholds) :
        /\ thresholds[i].alert_type = "cost_spike"
        /\ thresholds[i].service \in {S, "all"}
        /\ \/ increase >= thresholds[i].threshold_amount
           \/ increase * 100 >= thresholds[i].threshold_percentage * P}

FirstOf(indices) == CHOOSE i \in indices : \A j \in indices : i <= j

\* C24 (first qualifying threshold wins).  A candidate returned by
\* check_cost_spike carries the threshold_amount and threshold_percentage of
\* the first threshold in list order, among those of type cost_spike in scope
\* of the service, whose amount-or-percentage condition holds; and every
\* check returns at most one candidate.
C24_FirstQualifyingWins ==
  [][\A p \in Producers :
       /\ (Calls(p, "check_cost_spike") /\ cand'[p] # None)
            => LET Q == QualifyingSpikeThresholds(arg'[p][1]) IN
               /\ Q # {}
               /\ cand'[p][1].threshold_amount
                    = thresholds[FirstOf(Q)].threshold_amount
               /\ cand'[p][1].threshold_percentage
                    = thresholds[FirstOf(Q)].threshold_percentage
       /\ \A method \in CheckMethods :
            Calls(p, method) => Len(cand'[p]) <= 1]_vars

\* C24 witness: check_cost_spike has returned a candidate carrying the limits
\* of the first threshold while a later threshold with other limits
\* qualifies too.
C24_Witness ==
  \E p \in Producers :
    /\ pc[p] = "checked" /\ op[p] = "check_cost_spike" /\ cand[p] # None
    /\ LET Q == QualifyingSpikeThresholds(arg[p][1]) IN
       /\ Cardinality(Q) >= 2
       /\ \E j \in Q :
            thresholds[j].threshold_amount # thresholds[FirstOf(Q)].threshold_amount
       /\ cand[p][1].threshold_amount = thresholds[FirstOf(Q)].threshold_amount

---------------------------------------------------------------------------
\* the clock of the latest delivery for the alert key (ty, s)
LastDelivery(ty, s) ==
  LET times == {delivered_at[i] : i \in {j \in 1..Len(alert_history) :
                  alert_history[j].type = ty /\ alert_history[j].service = s}}
  IN CHOOSE t \in times : \A u \in times : u <= t

\* C25 (return to Idle).  For every alert key with a delivery, once
\* alert_cooldown_minutes * 60 seconds have passed since its latest delivery
\* and fewer than max_alerts_per_hour alerts have been delivered in the
\* current clock hour, the should_send check accepts a candidate for that key.
C25_ReturnToIdle ==
  \A i \in 1..Len(alert_history) :
    LET ty == alert_history[i].type
        s == alert_history[i].service
    IN (/\ (now - LastDelivery(ty, s)) * 60 >= alert_cooldown_minutes * 60
        /\ Cardinality(DeliveredInHourOf(now)) < max_alerts_per_hour)
         => ShouldSend(Candidate(ty, s), alert_count_hourly)

---------------------------------------------------------------------------
\* C26 (hourly counters reset on hour boundaries).  The counter send_alert
\* keeps for the current clock hour counts the deliveries of this hour and no
\* earlier one, and in a clock hour without a delivery the rate-limit check
\* reads a count of 0 and does not reject, however many alerts the hours
\* before have seen.
C26_HourlyReset ==
  /\ CountOf(alert_count_hourly, RecordHourKey(now))
       = Cardinality(DeliveredInHourOf(now))
  /\ DeliveredInHourOf(now) = {}
       => /\ CountOf(alert_count_hourly, GateHourKey(now)) = 0
          /\ ~RateBlocks(alert_count_hourly)

\* C26 witness: the clock has entered a new hour after an hour in which
\* max_alerts_per_hour alerts were delivered, nothing delivered in it yet.
C26_Witness ==
  /\ DeliveredInHourOf(now) = {}
  /\ Cardinality(DeliveredInHourOf(now - 60)) >= max_alerts_per_hour
  /\ CountOf(alert_count_hourly, RecordHourKey(now - 60)) >= max_alerts_per_hour
  /\ ~RateBlocks(alert_count_hourly)

---------------------------------------------------------------------------
\* C27 (thresholds are read-only after construction).  No step of
\* check_cost_spike, check_budget_exceeded, check_anomaly, send_alert,
\* get_alert_history or get_alert_stats changes the threshold list.
C27_ThresholdsReadOnly ==
  [][(\E p \in Producers : pc'[p] # pc[p]) => thresholds' = thresholds]_vars

\* C27 witness: after deliveries of two alert types and a history query the
\* manager holds the thresholds of its file, as loaded.
C27_Witness ==
  \E p \in Producers :
    /\ pc[p] = "queried"
    /\ Len(alert_history) >= 2
    /\ alert_history[1].type # alert_history[2].type
    /\ thresholds_file = ValidFile
    /\ thresholds = file_thresholds

---------------------------------------------------------------------------
\* What a check returns on a manager with the same thresholds and clock and
\* no suppression state: the alert of the first threshold that is in scope
\* and whose condition the record meets, None when there is none.
UnsuppressedResult(method, record) ==
  LET S == Get(record, "service", "unknown") IN
  CASE method = "check_cost_spike" ->
         LET Q == QualifyingSpikeThresholds(record) IN
         IF Get(record, "previous_cost", 0) = 0 \/ Q = {} THEN None
         ELSE Some(SpikeAlert(record, thresholds[FirstOf(Q)]))
    [] method = "check_budget_exceeded" ->
         IF /\ Get(record, "current_cost", 0) > Get(record, "budget_limit", Infinity)
            /\ \E i \in 1..Len(thresholds) :
                 /\ thresholds[i].alert_type = "budget_exceeded"
                 /\ thresholds[i].service \in {S, "all"}
         THEN Some(BudgetAlert(record))
         ELSE None
    [] method = "check_anomaly" ->
         IF MeetsAnomalyThreshold(record) THEN Some(AnomalyAlert(record))
         ELSE None

\* C28 (the evaluator is pure decision logic).  What check_cost_spike,
\* check_budget_exceeded and check_anomaly return for a record is what a
\* manager with the same thresholds and no suppression state returns for it:
\* the last-sent map, the hourly counters and the history have no part in it.
C28_EvaluatorPure ==
  [][\A p \in Producers :
       \A method \in CheckMethods :
         (Calls(p, method) /\ pc'[p] = "checked")
           => cand'[p] = UnsuppressedResult(method, arg'[p][1])]_vars

---------------------------------------------------------------------------
\* what send_alert reports, and its callers print as "Failed to send alert",
\* when a channel attempt has failed
FailureOutcomes == {"false"}

\* C29 (a suppressed candidate is not surfaced as a failure).  When the gate
\* at the entry of send_alert rejects a candidate, what send_alert reports is
\* none of the outcomes it reports for a failed channel delivery.
C29_SuppressedIsNotFailure ==
  [][\A p \in Producers :
       (/\ pc[p] = "checked" /\ cand[p] # None
        /\ ~ShouldSend(cand[p][1], alert_count_hourly)
        /\ pc'[p] # "checked")
         => ret'[p] \notin FailureOutcomes]_vars

---------------------------------------------------------------------------
\* C30 (send_alert re-checks the gate before dispatching).  When the
\* should_send check rejects a candidate at the entry of send_alert, the call
\* returns false with no channel attempted, and the history, the history
\* file, the last-sent times and the value of every hourly counter are as
\* before.
C30_EntryGateRejects ==
  [][\A p \in Producers :
       (/\ pc[p] = "checked" /\ cand[p] # None
        /\ ~ShouldSend(cand[p][1], alert_count_hourly)
        /\ pc'[p] # "checked")
         => /\ pc'[p] = "done" /\ ret'[p] = "false"
            /\ slack_result'[p] = "none" /\ email_result'[p] = "none"
            /\ alert_history' = alert_history
            /\ history_file' = history_file
            /\ last_alert_time' = last_alert_time
            /\ SameCounts(alert_count_hourly', alert_count_hourly)]_vars

\* C30 witness: send_alert has returned false for a candidate whose check
\* had passed, with both channels configured and neither attempted, after
\* another producer's delivery.
C30_Witness ==
  \E p \in Producers :
    /\ pc[p] = "done" /\ ret[p] = "false" /\ cand[p] # None
    /\ slack_result[p] = "none" /\ email_result[p] = "none"
    /\ config = BothChannels
    /\ Len(alert_history) >= 1
    /\ cand[p][1] \notin {alert_history[i] : i \in 1..Len(alert_history)}

---------------------------------------------------------------------------
\* C31 (a candidate is never mutated).  Through every step of send_alert, the
\* gate at its entry, the channel attempts, the history append and the save,
\* the candidate the caller passed keeps every field and value, and gains
\* and loses no field.
C31_CandidateNeverMutated ==
  [][\A p \in Producers :
       (/\ cand[p] # None
        /\ pc[p] \in {"checked", "sending", "saving", "closing"}
        /\ pc'[p] # "idle")
         => cand'[p] = cand[p]]_vars

\* C31 witness: send_alert has delivered, both channels attempted, and the
\* caller's candidate is the anomaly alert check_anomaly built for its record
\* at this clock time, which is also the record the history ends with.
C31_Witness ==
  \E p \in Producers :
    /\ pc[p] = "done" /\ ret[p] = "true" /\ op[p] = "check_anomaly"
    /\ slack_result[p] = "ok" /\ email_result[p] = "ok"
    /\ cand[p] = Some(AnomalyAlert(arg[p][1]))
    /\ alert_history[Len(alert_history)] = cand[p][1]

---------------------------------------------------------------------------
\* C32 (alert-key isolation).  The cooldown check rejects no candidate whose
\* (type, service) pair has had no delivery: the delivery recorded for one
\* pair never suppresses another pair, whatever the service is called.
C32_AlertKeyIsolation ==
  \A ty \in AlertTypes, s \in Services :
    (\A i \in 1..Len(alert_history) :
       ~(alert_history[i].type = ty /\ alert_history[i].service = s))
      => ~CooldownBlocks(Candidate(ty, s))

---------------------------------------------------------------------------
\* the calls a scan of the batch has to make: check_anomaly on each anomaly
\* in order, then check_cost_spike on the last two daily totals when there
\* are two
ScanCalls(b) ==
  LET anomaly_calls ==
        [i \in 1..Len(b.anomalies) |->
           Call("check_anomaly", PipelineAnomalyData(b.anomalies[i]))]
  IN IF Len(b.daily_total_data) >= 2
     THEN Append(anomaly_calls,
                 Call("check_cost_spike", PipelineCostData(b.daily_total_data)))
     ELSE anomaly_calls

---------------------------------------------------------------------------
\* C34 (the in-memory history is append-only).  Every step of every
\* operation leaves the history as it is, except a send_alert that delivers,
\* which puts exactly one record, its candidate, after the records already
\* there.
C34_HistoryAppendOnly ==
  [][\/ alert_history' = alert_history
     \/ \E p \in Producers :
          /\ pc[p] = "sending" /\ ret'[p] = "true"
          /\ alert_history' = Append(alert_history, cand[p][1])]_vars

\* C34 witness: a second, different alert has been delivered and stands
\* after the first, and a query has since been answered.
C34_Witness ==
  \E p \in Producers :
    /\ pc[p] = "queried"
    /\ Len(alert_history) = 2
    /\ alert_history[1] # alert_history[2]
    /\ delivered_at[1] < delivered_at[2]

---------------------------------------------------------------------------
\* sum(d.values()) of a dict of numbers
RECURSIVE SumValues(_)
SumValues(d) ==
  IF DOMAIN d = {} THEN 0
  ELSE LET k == CHOOSE j \in DOMAIN d : TRUE
       IN d[k] + SumValues([j \in DOMAIN d \ {k} |-> d[j]])

\* C35 (counters agree with the ledger).  With one caller making its check
\* and send_alert calls one after the other, the values of all hourly
\* counters add up to the number of records in the in-memory history.
C35_CountersAgreeWithLedger ==
  SumValues(alert_count_hourly) = Len(alert_history)

\* C35 witness: two alerts delivered in different clock hours, each counted
\* in a bucket of its own, beside a bucket the gate introduced with 0.
C35_Witness ==
  /\ Len(alert_history) = 2
  /\ delivered_at[1] \div 60 # delivered_at[2] \div 60
  /\ CountOf(alert_count_hourly, RecordHourKey(delivered_at[1])) = 1
  /\ CountOf(alert_count_hourly, RecordHourKey(delivered_at[2])) = 1
  /\ \E k \in DOMAIN alert_count_hourly : alert_count_hourly[k] = 0

---------------------------------------------------------------------------
\* an SMTP server is configured and the username, the password or the
\* recipient list is empty
IncompleteEmail(cfg) ==
  /\ cfg.email_smtp_server # ""
  /\ \/ cfg.email_username = ""
     \/ cfg.email_password = ""
     \/ cfg.email_recipients = <<>>

\* C36 (incomplete SMTP settings count as a sent email).  With an SMTP server
\* configured and the username, the password or the recipient list empty,
\* the email channel of a send_alert past its gate transmits nothing and
\* raises nothing, and send_alert returns true and records the delivery.
C36_IncompleteEmailCountsAsSent ==
  [][\A p \in Producers :
       (pc[p] = "sending" /\ pc'[p] # "sending" /\ IncompleteEmail(config))
         => /\ email_result'[p] = "skipped"
            /\ pc'[p] = "done" /\ ret'[p] = "true"
            /\ alert_history' = Append(alert_history, cand[p][1])]_vars

\* C36 witness: send_alert has returned true for an alert that went out on
\* no channel: no webhook configured, the email skipped for want of a
\* password.
C36_Witness ==
  \E p \in Producers :
    /\ config.email_smtp_server # "" /\ config.email_username # ""
    /\ config.email_password = "" /\ config.email_recipients # <<>>
    /\ pc[p] = "done" /\ ret[p] = "true"
    /\ slack_result[p] = "none" /\ email_result[p] = "skipped"
    /\ alert_history[Len(alert_history)] = cand[p][1]

\* ---------------------------------------------------------------------------
\* A failed save of the history file
\* ---------------------------------------------------------------------------

\* file holds the first records of history, in order
IsPrefix(file, history) ==
  /\ Len(file) <= Len(history)
  /\ \A i \in 1..Len(file) : file[i] = history[i]

\* C37: a failure to write the history file is swallowed. A send_alert that
\* delivered always leaves a file holding the first records of the in-memory
\* history; when the save failed, so that the file is a strict prefix, the call
\* still returns true, the history holds the new record as its last, and the
\* last-alert time and the hourly counter are updated.
C37_SaveFailureSwallowed ==
  [][\A p \in Producers :
       (pc[p] = "sending" /\ pc'[p] # "sending"
          /\ alert_history' # alert_history)
         => /\ IsPrefix(history_file', alert_history')
            /\ history_file' # alert_history'
                 => /\ pc'[p] = "done" /\ ret'[p] = "true"
                    /\ alert_history' = Append(alert_history, cand[p][1])
                    /\ last_alert_time' =
                         Put(last_alert_time, RecordKey(cand[p][1]), now)
                    /\ CountOf(alert_count_hourly', RecordHourKey(now)) =
                         CountOf(alert_count_hourly, RecordHourKey(now)) + 1]_vars

\* A call has returned true after its second delivery while the file still
\* holds only the first record: the save of the second failed after the save
\* of the first had succeeded.
C37_Witness ==
  \E p \in Producers :
    /\ pc[p] = "done" /\ ret[p] = "true"
    /\ Len(alert_history) = 2
    /\ history_file = SubSeq(alert_history, 1, 1)
    /\ Get(last_alert_time, RecordKey(alert_history[2]), -1) = now

=============================================================================
